---- MODULE Spec2Model ----
(***************************************************************************)
(* Model of the root command of rit (pkg/cmd/root.go): the persistent      *)
(* pre-run and post-run hooks that gate every command invocation, the      *)
(* version flag computed at construction and the collaborators they call.  *)
(* One behaviour of the model is one process run.                          *)
(***************************************************************************)
EXTENDS Integers, Sequences, FiniteSets, TLC

VARIABLES
    cmdPath,    \* cmd.CommandPath() of the invoked command
    Version,    \* package variable Version, injected at build time
    fs,         \* the directories that exist on the filesystem
    fs0,        \* the filesystem when the process started
    phase,      \* where the invocation is in its lifecycle
    log,        \* the collaborator calls and prints made so far, in order
    versionText,\* cobra.Command.Version, set by NewRootCmd
    responses,  \* what each stable-version GET made so far brought back
    err,        \* the error returned by the hook or body that ended Execute
    exitCode    \* the process exit status, NoExit while running

vars ==
    <<cmdPath, Version, fs, fs0, phase, log, versionText, responses, err,
      exitCode>>

(* ---------------------------------------------------------------- bounds *)

\* number of distinct error values a collaborator can return
MaxErr == 2

(* ------------------------------------------------------------- constants *)

latestVersionMsg(v) == "Latest available version: " \o v

versionMsg(v, date, rt) ==
    v \o "\n  Build date: " \o date \o "\n  Built with: " \o rt \o "\n"

versionMsgWithLatestVersion(v, latest, date, rt) ==
    v \o "\n  " \o latest \o "\n  Build date: " \o date
      \o "\n  Built with: " \o rt \o "\n"

cmdUse == "rit"

BuildDate == "unknown"

MsgInit ==
    "To start using rit, you need to initialize rit first.\nCommand: rit init"

whitelist ==
    << cmdUse,
       cmdUse \o " help",
       cmdUse \o " completion zsh",
       cmdUse \o " completion bash",
       cmdUse \o " completion fish",
       cmdUse \o " completion powershell",
       cmdUse \o " init",
       cmdUse \o " upgrade" >>

upgradeWhitelist == << cmdUse >>

completeMarker == "__complete"

tutorialStatusOn == "on"

tagTutorial == "\n[TUTORIAL]"

MessageTitle == "To initialize the ritchie:"

\* the bullet character of the source is written as a plain dot
MessageBody == " . Run \"rit init\"\n"

runtimeVersion == "go1.14"

(* ------------------------------------------------------ values and inputs *)

Nil == "nil"

Errors == { "err" \o ToString(i) : i \in 1..MaxErr }

NoExit == -1

ritchieHome == "/home/user/.rit"

pathJoin(a, b) == a \o "/" \o b

reposPath == pathJoin(ritchieHome, "repos")

commonsRepoPath == pathJoin(pathJoin(ritchieHome, "repos"), "commons")

\* the filesystems the process can find: a directory exists only under an
\* existing parent
FileSystems ==
    { {}, {ritchieHome}, {ritchieHome, reposPath},
      {ritchieHome, reposPath, commonsRepoPath} }

CommandPaths ==
    { whitelist[i] : i \in 1..Len(whitelist) }
      \cup { "rit sub", "rit init x", "rit completion",
             "rit __complete", "rit __complete sub", "rit sub__completeNoDesc" }

Versions == { "dev", "v1.0.0", "v1.1.0" }

TutorialStates == { "on", "off", "ON", "" }


\* what one stable-version HTTP GET can bring back: a transport error or a
\* timeout (err), or a status with a body
HttpResponses ==
    { [err |-> TRUE, status |-> 0, body |-> ""] }
      \cup { [err |-> FALSE, status |-> st, body |-> b] :
                st \in {200, 404}, b \in {"v1.0.0", "v1.1.0\n", "dev\n"} }

\* what rt.Find() can return: a holder and a nil error, or an error
TutorialHolders ==
    { [Current |-> s, err |-> Nil] : s \in TutorialStates }
      \cup { [Current |-> "", err |-> e] : e \in Errors }

StableVersionUrl == "https://commons-repo.ritchiecli.io/stable.txt"

\* one collaborator call or print: what was called, with what, and its result
Ev(op, arg, res) == [op |-> op, arg |-> arg, res |-> res]

\* the events of a hook, marked with the hook that made them
Tag(ph, evs) ==
    [ i \in 1..Len(evs) |->
        [phase |-> ph, op |-> evs[i].op, arg |-> evs[i].arg, res |-> evs[i].res] ]

BoolStr(b) == IF b THEN "true" ELSE "false"

(* ------------------------------------------------------------ collaborators *)

\* strings.Contains
stringsContains(s, sub) ==
    \E i \in 1..(Len(s) - Len(sub) + 1) : SubSeq(s, i, i + Len(sub) - 1) = sub

\* strings.TrimSpace, for the line ends a response body carries
RECURSIVE TrimSpace(_)
TrimSpace(s) ==
    IF Len(s) > 0 /\ SubSeq(s, Len(s), Len(s)) \in {"\n", " "}
    THEN TrimSpace(SubSeq(s, 1, Len(s) - 1))
    ELSE IF Len(s) > 0 /\ SubSeq(s, 1, 1) \in {"\n", " "}
    THEN TrimSpace(SubSeq(s, 2, Len(s)))
    ELSE s

\* sliceutil.Contains
sliceutilContains(list, s) == \E i \in 1..Len(list) : list[i] = s

\* dir.Exists
Exists(files, p) == p \in files

\* dir.Create, when it succeeds: the directory and its parents exist afterwards
Create(files, p) == files \cup {p}

\* prompt.Yellow
Yellow(s) == "<yellow>" \o s \o "</yellow>"

\* resolver.StableVersion: one GET, the trimmed body of a 200 response
StableVersion(resp) ==
    IF resp.err \/ resp.status # 200
    THEN [version |-> "", err |-> "errStableVersion"]
    ELSE [version |-> TrimSpace(resp.body), err |-> Nil]

\* version.VerifyNewVersion
VerifyNewVersion(resp, currentVersion) ==
    LET r == StableVersion(resp) IN
    IF r.err = Nil /\ r.version # currentVersion
    THEN versionMsgWithLatestVersion(currentVersion,
             latestVersionMsg(r.version), BuildDate, runtimeVersion)
    ELSE versionMsg(currentVersion, BuildDate, runtimeVersion)

(* ------------------------------------------------------------------ root.go *)

\* a whitelist that also exempts every path that extends an entry
isWhitelistByPrefix(list, path) ==
    \E i \in 1..Len(list) :
        Len(list[i]) <= Len(path) /\ SubSeq(path, 1, Len(list[i])) = list[i]

isWhitelist(list, path) == sliceutilContains(list, path)

\* a completion test that wants the marker as a whole word of the path
isCompleteCmdWholeWord(path) ==
    \/ path = cmdUse \o " " \o completeMarker
    \/ stringsContains(path, " " \o completeMarker \o " ")

\* a completion test that wants the marker right after the root command
isCompleteCmdPrefix(path) ==
    LET p == cmdUse \o " " \o completeMarker IN
    Len(p) <= Len(path) /\ SubSeq(path, 1, Len(p)) = p

isCompleteCmd(path) == stringsContains(path, completeMarker)

\* an initialization check that looks for commons directly under the home
ritchieIsInitializedNoRepos(files) ==
    Exists(files, pathJoin(ritchieHome, "commons"))

\* an initialization check satisfied by the home directory alone
ritchieIsInitializedHomeOnly(files) == Exists(files, ritchieHome)

ritchieIsInitialized(files) == Exists(files, commonsRepoPath)

\* a version flag that compares the versions without looking at the error
versionFlagIgnoresErr(ver, resp) ==
    LET r == StableVersion(resp) IN
    IF r.version # ver
    THEN versionMsgWithLatestVersion(ver,
             Yellow(latestVersionMsg(r.version)), BuildDate, runtimeVersion)
    ELSE versionMsg(ver, BuildDate, runtimeVersion)

versionFlag(ver, resp) ==
    LET r == StableVersion(resp) IN
    IF r.err = Nil /\ r.version # ver
    THEN versionMsgWithLatestVersion(ver,
             Yellow(latestVersionMsg(r.version)), BuildDate, runtimeVersion)
    ELSE versionMsg(ver, BuildDate, runtimeVersion)

\* a banner shown for every status that is not "off"
tutorialRitUnlessOff(tutorialStatus) ==
    IF tutorialStatus # "off"
    THEN << Ev("Info", tagTutorial, ""), Ev("Info", MessageTitle, ""),
            Ev("Println", MessageBody, "") >>
    ELSE << >>

tutorialRit(tutorialStatus) ==
    IF tutorialStatus = tutorialStatusOn
    THEN << Ev("Info", tagTutorial, ""), Ev("Info", MessageTitle, ""),
            Ev("Println", MessageBody, "") >>
    ELSE << >>

\* a notice check gated by the init-whitelist instead of the upgrade-whitelist
verifyNewVersionInitWhitelist(path, ver, resp) ==
    IF isWhitelist(whitelist, path)
    THEN << Ev("Get", StableVersionUrl, StableVersion(resp).err),
            Ev("Warning", VerifyNewVersion(resp, ver), "") >>
    ELSE << >>

\* a notice check that fetches a second time when the first fetch failed
verifyNewVersionRetries(path, ver, resp) ==
    IF isWhitelist(upgradeWhitelist, path)
    THEN IF StableVersion(resp).err # Nil
         THEN << Ev("Get", StableVersionUrl, StableVersion(resp).err),
                 Ev("Get", StableVersionUrl, StableVersion(resp).err),
                 Ev("Warning", VerifyNewVersion(resp, ver), "") >>
         ELSE << Ev("Get", StableVersionUrl, Nil),
                 Ev("Warning", VerifyNewVersion(resp, ver), "") >>
    ELSE << >>

verifyNewVersion(path, ver, resp) ==
    IF isWhitelist(upgradeWhitelist, path)
    THEN << Ev("Get", StableVersionUrl, StableVersion(resp).err),
            Ev("Warning", VerifyNewVersion(resp, ver), "") >>
    ELSE << >>

\* a gate that reports "not initialized" as a failure of the process
initGateExitsNonZero(path, made) ==
    IF isWhitelist(whitelist, path) \/ isCompleteCmd(path)
    THEN [ events |-> << >>, ret |-> Nil, exit |-> NoExit, files |-> made ]
    ELSE IF ~ritchieIsInitialized(made)
    THEN [ events |-> << Ev("Exists", commonsRepoPath, "false"),
                         Ev("Println", MsgInit, ""),
                         Ev("Exit", "1", "") >>,
           ret |-> Nil, exit |-> 1, files |-> made ]
    ELSE [ events |-> << Ev("Exists", commonsRepoPath, "true") >>,
           ret |-> Nil, exit |-> NoExit, files |-> made ]

\* a gate that prints the init message and returns without exiting
initGateNoExit(path, made) ==
    IF isWhitelist(whitelist, path) \/ isCompleteCmd(path)
    THEN [ events |-> << >>, ret |-> Nil, exit |-> NoExit, files |-> made ]
    ELSE IF ~ritchieIsInitialized(made)
    THEN [ events |-> << Ev("Exists", commonsRepoPath, "false"),
                         Ev("Println", MsgInit, "") >>,
           ret |-> Nil, exit |-> NoExit, files |-> made ]
    ELSE [ events |-> << Ev("Exists", commonsRepoPath, "true") >>,
           ret |-> Nil, exit |-> NoExit, files |-> made ]

\* the pre-run hook once Create has succeeded: the whitelist decision and the
\* initialization gate
initGate(path, made) ==
    IF isWhitelist(whitelist, path) \/ isCompleteCmd(path)
    THEN [ events |-> << >>, ret |-> Nil, exit |-> NoExit, files |-> made ]
    ELSE IF ~ritchieIsInitialized(made)
    THEN [ events |-> << Ev("Exists", commonsRepoPath, "false"),
                         Ev("Println", MsgInit, ""),
                         Ev("Exit", "0", "") >>,
           ret |-> Nil, exit |-> 0, files |-> made ]
    ELSE [ events |-> << Ev("Exists", commonsRepoPath, "true") >>,
           ret |-> Nil, exit |-> NoExit, files |-> made ]

\* a pre-run hook that drops the error of Create and goes on to the gate
PreRunFuncIgnoresCreateErr(path, files, createErr) ==
    LET g == initGate(path, IF createErr = Nil
                            THEN Create(files, ritchieHome) ELSE files)
    IN  [ events |-> << Ev("Create", ritchieHome, createErr) >> \o g.events,
          ret |-> g.ret, exit |-> g.exit, files |-> g.files ]

\* a pre-run hook that runs the gate before it ensures the home directory
PreRunFuncGateFirst(path, files, createErr) ==
    LET g == initGate(path, files) IN
    IF g.exit # NoExit
    THEN g
    ELSE IF createErr # Nil
    THEN [ events |-> g.events \o << Ev("Create", ritchieHome, createErr) >>,
           ret |-> createErr, exit |-> NoExit, files |-> files ]
    ELSE [ events |-> g.events \o << Ev("Create", ritchieHome, Nil) >>,
           ret |-> Nil, exit |-> NoExit, files |-> Create(files, ritchieHome) ]

\* the pre-run hook: its events, the error it returns, the status it exits the
\* process with (NoExit when it returns) and the filesystem it leaves
PreRunFunc(path, files, createErr) ==
    IF createErr # Nil
    THEN [ events |-> << Ev("Create", ritchieHome, createErr) >>,
           ret |-> createErr, exit |-> NoExit, files |-> files ]
    ELSE LET g == initGate(path, Create(files, ritchieHome)) IN
         [ events |-> << Ev("Create", ritchieHome, Nil) >> \o g.events,
           ret |-> g.ret, exit |-> g.exit, files |-> g.files ]

\* a tutorial check that wraps the error of Find before returning it
tutorialCheckWrapsErr(files, tutorialHolder) ==
    IF ~ritchieIsInitialized(files)
    THEN LET asked == << Ev("Exists", commonsRepoPath, "false"),
                         Ev("Find", tutorialHolder.Current, tutorialHolder.err) >>
         IN  IF tutorialHolder.err # Nil
             THEN [ events |-> asked,
                    ret |-> "tutorial: " \o tutorialHolder.err ]
             ELSE [ events |-> asked \o tutorialRit(tutorialHolder.Current),
                    ret |-> Nil ]
    ELSE [ events |-> << Ev("Exists", commonsRepoPath, "true") >>, ret |-> Nil ]

\* a tutorial check with the initialization test inverted
tutorialCheckInverted(files, tutorialHolder) ==
    IF ritchieIsInitialized(files)
    THEN LET asked == << Ev("Exists", commonsRepoPath, "true"),
                         Ev("Find", tutorialHolder.Current, tutorialHolder.err) >>
         IN  IF tutorialHolder.err # Nil
             THEN [ events |-> asked, ret |-> tutorialHolder.err ]
             ELSE [ events |-> asked \o tutorialRit(tutorialHolder.Current),
                    ret |-> Nil ]
    ELSE [ events |-> << Ev("Exists", commonsRepoPath, "false") >>, ret |-> Nil ]

\* a tutorial check decided by the marker state found when the process began
tutorialCheckFromStart(files, tutorialHolder) ==
    IF ~ritchieIsInitialized(fs0)
    THEN LET asked == << Ev("Exists", commonsRepoPath, "false"),
                         Ev("Find", tutorialHolder.Current, tutorialHolder.err) >>
         IN  IF tutorialHolder.err # Nil
             THEN [ events |-> asked, ret |-> tutorialHolder.err ]
             ELSE [ events |-> asked \o tutorialRit(tutorialHolder.Current),
                    ret |-> Nil ]
    ELSE [ events |-> << Ev("Exists", commonsRepoPath, "true") >>, ret |-> Nil ]

\* the tutorial check of the post-run hook: its events and the error returned
tutorialCheck(files, tutorialHolder) ==
    IF ~ritchieIsInitialized(files)
    THEN LET asked == << Ev("Exists", commonsRepoPath, "false"),
                         Ev("Find", tutorialHolder.Current, tutorialHolder.err) >>
         IN  IF tutorialHolder.err # Nil
             THEN [ events |-> asked, ret |-> tutorialHolder.err ]
             ELSE [ events |-> asked \o tutorialRit(tutorialHolder.Current),
                    ret |-> Nil ]
    ELSE [ events |-> << Ev("Exists", commonsRepoPath, "true") >>, ret |-> Nil ]

\* a post-run hook that returns the error of a failed stable-version fetch
PostRunFuncFetchFatal(path, files, ver, resp, tutorialHolder) ==
    LET t == tutorialCheck(files, tutorialHolder) IN
    IF isWhitelist(upgradeWhitelist, path) /\ StableVersion(resp).err # Nil
    THEN [ events |-> verifyNewVersion(path, ver, resp),
           ret |-> StableVersion(resp).err ]
    ELSE [ events |-> verifyNewVersion(path, ver, resp) \o t.events,
           ret |-> t.ret ]

\* a post-run hook that ends after the version notice of the root command
PostRunFuncNoticeOnly(path, files, ver, resp, tutorialHolder) ==
    LET t == tutorialCheck(files, tutorialHolder) IN
    IF isWhitelist(upgradeWhitelist, path)
    THEN [ events |-> verifyNewVersion(path, ver, resp), ret |-> Nil ]
    ELSE [ events |-> verifyNewVersion(path, ver, resp) \o t.events,
           ret |-> t.ret ]

\* the post-run hook: its events and the error it returns
PostRunFunc(path, files, ver, resp, tutorialHolder) ==
    LET t == tutorialCheck(files, tutorialHolder) IN
    [ events |-> verifyNewVersion(path, ver, resp) \o t.events, ret |-> t.ret ]

(* ------------------------------------------------------------------ actions *)

Init ==
    /\ cmdPath \in CommandPaths
    /\ Version \in Versions
    /\ fs \in FileSystems
    /\ fs0 = fs
    /\ phase = "Start"
    /\ log = << >>
    /\ versionText = ""
    /\ responses = << >>
    /\ err = Nil
    /\ exitCode = NoExit

\* NewRootCmd: builds the command; versionFlag() fetches the stable version
NewRootCmd ==
    /\ phase = "Start"
    /\ \E resp \in HttpResponses :
          /\ versionText' = versionFlag(Version, resp)
          /\ responses' = Append(responses, resp)
          /\ log' = log \o Tag("construct",
                      << Ev("Get", StableVersionUrl, StableVersion(resp).err) >>)
    /\ phase' = "Constructed"
    /\ UNCHANGED <<cmdPath, Version, fs, fs0, err, exitCode>>

\* PersistentPreRunE: the pre-run hook runs before the command body
PersistentPreRunE ==
    /\ phase = "Constructed"
    /\ \E createErr \in {Nil} \cup Errors :
          LET r == PreRunFunc(cmdPath, fs, createErr) IN
          /\ log' = log \o Tag("pre", r.events)
          /\ fs' = r.files
          /\ err' = r.ret
          /\ exitCode' = r.exit
          /\ phase' = IF r.exit # NoExit THEN "Blocked"
                      ELSE IF r.ret # Nil THEN "PreFailed"
                      ELSE "Proceed"
    /\ UNCHANGED <<cmdPath, Version, fs0, versionText, responses>>

\* RunE: the command body, opaque; it may fail, and it (or anything else on
\* the machine) may create or remove directories under the home
RunE ==
    /\ phase = "Proceed"
    /\ \E bodyErr \in {Nil} \cup Errors, files \in FileSystems :
          /\ fs' = files
          /\ err' = bodyErr
          /\ phase' = IF bodyErr # Nil THEN "BodyFailed" ELSE "BodyExecuted"
    /\ log' = log \o Tag("body", << Ev("Run", cmdPath, err') >>)
    /\ UNCHANGED <<cmdPath, Version, fs0, versionText, responses, exitCode>>

\* PersistentPostRunE: the post-run hook runs after a body that returned nil
PersistentPostRunE ==
    /\ phase = "BodyExecuted"
    /\ \E resp \in HttpResponses, tutorialHolder \in TutorialHolders :
          LET r == PostRunFunc(cmdPath, fs, Version, resp, tutorialHolder) IN
          /\ log' = log \o Tag("post", r.events)
          /\ responses' = IF \E i \in 1..Len(r.events) : r.events[i].op = "Get"
                          THEN Append(responses, resp)
                          ELSE responses
          /\ err' = r.ret
          /\ phase' = IF r.ret # Nil THEN "PostFailed" ELSE "PostChecksDone"
    /\ UNCHANGED <<cmdPath, Version, fs, fs0, versionText, exitCode>>

\* the caller of Execute: a returned error is printed and the process exits
\* non-zero, otherwise it exits 0
Main ==
    /\ phase \in {"PreFailed", "BodyFailed", "PostFailed", "PostChecksDone"}
    /\ exitCode = NoExit
    /\ exitCode' = IF err # Nil THEN 1 ELSE 0
    /\ log' = IF err # Nil
              THEN log \o Tag("main", << Ev("PrintError", err, "") >>)
              ELSE log
    /\ UNCHANGED <<cmdPath, Version, fs, fs0, phase, versionText, responses, err>>

Next ==
    \/ NewRootCmd
    \/ PersistentPreRunE
    \/ RunE
    \/ PersistentPostRunE
    \/ Main

Spec == Init /\ [][Next]_vars

(* ------------------------------------------------- reading the event log *)

\* the events one hook made, in order
EventsOf(ph) == SelectSeq(log, LAMBDA e : e.phase = ph)

\* the events of one operation, over the whole invocation or in one hook
Calls(op) == SelectSeq(log, LAMBDA e : e.op = op)

CallsIn(ph, op) == SelectSeq(log, LAMBDA e : e.phase = ph /\ e.op = op)

InitWhitelisted == cmdPath \in { whitelist[i] : i \in 1..Len(whitelist) }

CompletionInvocation == stringsContains(cmdPath, "__complete")

\* the pre-run hook has run
PreDone == phase \notin {"Start", "Constructed"}

\* the post-run hook has run
PostDone == phase \in {"PostChecksDone", "PostFailed"}

\* the marker directory was there when the pre-run hook ran
MarkerAtPre == commonsRepoPath \in fs0

CreateSucceeded == Len(Calls("Create")) > 0 /\ Calls("Create")[1].res = Nil

CreateFailed == Len(Calls("Create")) > 0 /\ Calls("Create")[1].res # Nil

InitMessagePrinted ==
    \E i \in 1..Len(log) : log[i].op = "Println" /\ log[i].arg = MsgInit

BodyRan == Len(Calls("Run")) > 0

(* ------------------------------------------------------------------ claims *)

\* C1 as stated: for every command path outside the init-whitelist, with the
\* marker directory absent (and the home directory ensured), the pre-hook
\* prints the init message, the process exits 0 and the body never runs.
C1_AsStated ==
    (PreDone /\ ~InitWhitelisted /\ CreateSucceeded /\ ~MarkerAtPre) =>
        /\ phase = "Blocked"
        /\ InitMessagePrinted
        /\ exitCode = 0
        /\ ~BodyRan

\* C1, amended: for every command path that is outside the init-whitelist and
\* holds no completion marker, once Create(home) has succeeded with the marker
\* directory absent, the pre-hook prints the init message, the process exits 0
\* and neither the body nor the post-hook runs.
C1_BlockedWhenNotInitialized ==
    (PreDone /\ ~InitWhitelisted /\ ~CompletionInvocation
        /\ CreateSucceeded /\ ~MarkerAtPre) =>
        /\ phase = "Blocked"
        /\ InitMessagePrinted
        /\ exitCode = 0
        /\ ~BodyRan
        /\ EventsOf("post") = << >>

C1_Witness ==
    /\ phase = "Blocked"
    /\ cmdPath = "rit init x"
    /\ ~MarkerAtPre
    /\ InitMessagePrinted
    /\ exitCode = 0

\* C2: for a command path that is in the init-whitelist or holds the completion
\* marker, the pre-hook makes no existence query and never exits the process,
\* whatever the marker state; when Create succeeded it returns nil, so the body
\* is next whether or not the marker exists.
C2_ExemptSkipsGate ==
    (PreDone /\ (InitWhitelisted \/ CompletionInvocation)) =>
        /\ CallsIn("pre", "Exists") = << >>
        /\ Calls("Exit") = << >>
        /\ ~InitMessagePrinted
        /\ phase # "Blocked"
        /\ CreateSucceeded => (phase # "PreFailed" /\ EventsOf("pre") = Calls("Create"))

C2_Witness ==
    /\ cmdPath = "rit init"
    /\ ~MarkerAtPre
    /\ phase = "Proceed"

\* C3 as stated: with the marker directory present the pre-hook returns no
\* error and does not exit, whatever the outcome of Create.
C3_AsStated ==
    (PreDone /\ MarkerAtPre) => phase \notin {"PreFailed", "Blocked"}

\* C3, amended: for every command path, with the marker directory present and
\* Create(home) successful, the pre-hook returns no error and does not exit:
\* the body is next.
C3_InitializedProceeds ==
    (PreDone /\ MarkerAtPre /\ CreateSucceeded) =>
        /\ phase \notin {"PreFailed", "Blocked"}
        /\ Calls("Exit") = << >>
        /\ ~InitMessagePrinted
        /\ (phase = "Proceed" => err = Nil /\ exitCode = NoExit)

C3_Witness ==
    /\ phase = "Proceed"
    /\ MarkerAtPre
    /\ ~InitWhitelisted
    /\ ~CompletionInvocation

\* C4: when Create(home) fails the pre-hook returns that very error and does
\* nothing else: Create is its only call, made once; no existence query, no
\* init message, no exit 0; the body and the post-hook never run.
C4_CreateFailureIsFatal ==
    CreateFailed =>
        /\ EventsOf("pre") = Calls("Create")
        /\ Len(Calls("Create")) = 1
        /\ err = Calls("Create")[1].res
        /\ phase = "PreFailed"
        /\ exitCode # 0
        /\ ~BodyRan
        /\ EventsOf("post") = << >>

C4_Witness ==
    /\ CreateFailed
    /\ phase = "PreFailed"
    /\ exitCode = 1
    /\ ~InitWhitelisted
    /\ ~MarkerAtPre

\* C5: for a command path other than the bare root path the post-hook makes
\* no stable-version fetch and prints no version warning.
C5_NoticeOnlyForRoot ==
    cmdPath # "rit" =>
        /\ CallsIn("post", "Get") = << >>
        /\ Calls("Warning") = << >>

C5_Witness ==
    /\ PostDone
    /\ cmdPath = "rit upgrade"
    /\ Len(EventsOf("post")) > 0

\* the marker directory is there now; nothing touches the filesystem once the
\* body has returned, so after the post-hook this is its state at post-hook time
MarkerNow == commonsRepoPath \in fs

PostFetchFailed ==
    Len(CallsIn("post", "Get")) > 0 /\ CallsIn("post", "Get")[1].res # Nil

FindFailed == Len(Calls("Find")) > 0 /\ Calls("Find")[1].res # Nil

FindSucceeded == Len(Calls("Find")) > 0 /\ Calls("Find")[1].res = Nil

\* some printed text holds the tutorial tag
TutorialTagPrinted ==
    \E i \in 1..Len(log) :
        /\ log[i].op \in {"Info", "Println", "Warning"}
        /\ stringsContains(log[i].arg, "[TUTORIAL]")

\* C6: when the stable-version fetch of the post-hook fails, the post-hook
\* returns no error because of it and still does the tutorial check: one
\* existence query of the marker, then Find exactly when the marker is absent,
\* and the only error it can return is the one of Find.
C6_FetchFailureIsSoft ==
    PostFetchFailed =>
        /\ Len(CallsIn("post", "Exists")) = 1
        /\ CallsIn("post", "Exists")[1].res = BoolStr(MarkerNow)
        /\ MarkerNow => (Calls("Find") = << >> /\ err = Nil)
        /\ ~MarkerNow => (Len(Calls("Find")) = 1 /\ err = Calls("Find")[1].res)
        /\ (TutorialTagPrinted <=>
               (FindSucceeded /\ Calls("Find")[1].arg = "on"))
        /\ phase = (IF FindFailed THEN "PostFailed" ELSE "PostChecksDone")

C6_Witness ==
    /\ PostFetchFailed
    /\ phase = "PostChecksDone"
    /\ FindSucceeded
    /\ TutorialTagPrinted

\* C7: when Find returns an error the post-hook returns that same error
\* value, the invocation ends as failed (non-zero exit, the error printed) and
\* no tutorial banner is printed.
C7_FindErrorSurfaces ==
    FindFailed =>
        /\ err = Calls("Find")[1].res
        /\ phase = "PostFailed"
        /\ exitCode \in {NoExit, 1}
        /\ exitCode = 1 => (/\ Len(Calls("PrintError")) = 1
                            /\ Calls("PrintError")[1].arg = Calls("Find")[1].res)
        /\ ~TutorialTagPrinted

C7_Witness ==
    /\ FindFailed
    /\ exitCode = 1
    /\ err = "err2"

\* C8: when the marker is absent at post-hook time and Find succeeds, the
\* output holds the [TUTORIAL] tag if and only if the returned state is
\* exactly "on", and the post-hook returns no error either way.
C8_BannerIffOn ==
    (PostDone /\ ~MarkerNow /\ FindSucceeded) =>
        /\ TutorialTagPrinted <=> (Calls("Find")[1].arg = "on")
        /\ err = Nil
        /\ phase = "PostChecksDone"

C8_Witness ==
    /\ PostDone
    /\ ~MarkerNow
    /\ FindSucceeded
    /\ Calls("Find")[1].arg = "on"
    /\ TutorialTagPrinted

\* C9 as stated: in one process run there is at most one Create call, at most
\* one existence query of the marker, at most one stable-version fetch and at
\* most one Find call.
C9_AsStated ==
    /\ Len(Calls("Create")) <= 1
    /\ Len(Calls("Exists")) <= 1
    /\ Len(Calls("Get")) <= 1
    /\ Len(Calls("Find")) <= 1

\* C9, amended: in one process run there is at most one Create call and at
\* most one Find call; the marker is queried at most once by the pre-hook and
\* at most once by the post-hook; the stable version is fetched at most once
\* at construction (for the version flag) and at most once by the post-hook;
\* nothing is tried again after it failed.
C9_NoRetries ==
    /\ Len(Calls("Create")) <= 1
    /\ Len(Calls("Find")) <= 1
    /\ Len(CallsIn("pre", "Exists")) <= 1
    /\ Len(CallsIn("post", "Exists")) <= 1
    /\ Len(Calls("Exists")) = Len(CallsIn("pre", "Exists")) + Len(CallsIn("post", "Exists"))
    /\ Len(CallsIn("construct", "Get")) <= 1
    /\ Len(CallsIn("post", "Get")) <= 1
    /\ Len(Calls("Get")) = Len(CallsIn("construct", "Get")) + Len(CallsIn("post", "Get"))

C9_Witness ==
    /\ PostDone
    /\ Len(Calls("Get")) = 2
    /\ PostFetchFailed
    /\ Len(Calls("Find")) = 1

\* C10: with the home directory missing and the command `rit sub`, once Create
\* has succeeded: the pre-hook has created the home, then queried the marker,
\* then printed the init message, then exited with status 0; nothing runs
\* after it (no body, no post-hook) and the home directory is still there.
C10_MissingHomeScenario ==
    (fs0 = {} /\ cmdPath = "rit sub" /\ CreateSucceeded) =>
        LET pre == EventsOf("pre") IN
        /\ Len(pre) = 4
        /\ pre[1].op = "Create" /\ pre[1].arg = ritchieHome
        /\ pre[2].op = "Exists" /\ pre[2].arg = commonsRepoPath
        /\ pre[3].op = "Println" /\ pre[3].arg = MsgInit
        /\ pre[4].op = "Exit" /\ pre[4].arg = "0"
        /\ log = EventsOf("construct") \o pre
        /\ exitCode = 0
        /\ phase = "Blocked"
        /\ ~BodyRan
        /\ fs = {ritchieHome}

C10_Witness ==
    /\ fs0 = {}
    /\ cmdPath = "rit sub"
    /\ phase = "Blocked"
    /\ exitCode = 0
    /\ ritchieHome \in fs

\* the response to the stable-version GET of the post-hook, when it made one
PostResponse == responses[Len(responses)]

\* a response that resolves to a stable version other than the running one
ResolvesToOtherVersion(resp) ==
    /\ ~resp.err
    /\ resp.status = 200
    /\ TrimSpace(resp.body) # Version

\* C11: in the post-hook of the bare root command a warning is printed if and
\* only if the stable version was resolved and differs from the running
\* version; when the versions are equal or resolution fails the version-notice
\* step prints nothing.
C11_WarningIffNewVersion ==
    (cmdPath = "rit" /\ PostDone) =>
        (Len(Calls("Warning")) > 0 <=> ResolvesToOtherVersion(PostResponse))

\* C12: the post-hook calls Find if and only if the marker directory is
\* absent at post-hook time; with the marker present it makes no Find call,
\* prints no tutorial banner and returns no error. Nothing before the
\* post-hook calls Find.
C12_FindIffNotInitialized ==
    /\ ~PostDone => Calls("Find") = << >>
    /\ PostDone =>
        /\ Len(Calls("Find")) = (IF MarkerNow THEN 0 ELSE 1)
        /\ Calls("Find") = CallsIn("post", "Find")
        /\ CallsIn("post", "Exists")[1].res = BoolStr(MarkerNow)
        /\ MarkerNow => (/\ ~TutorialTagPrinted
                         /\ err = Nil
                         /\ phase = "PostChecksDone")

C12_Witness ==
    /\ PostDone
    /\ MarkerNow
    /\ cmdPath = "rit sub"
    /\ Calls("Find") = << >>

\* the response to the stable-version GET made at construction
ConstructResponse == responses[1]

\* C13: the --version text names the latest version (the with-latest format)
\* exactly when the fetch made at construction succeeded and the fetched
\* string differs from the running Version; otherwise it is the plain text
\* with the version, the build date and the runtime only; a failed fetch
\* raises no error.
C13_VersionFlagText ==
    phase # "Start" =>
        /\ stringsContains(versionText, "Latest available version: ")
               <=> ResolvesToOtherVersion(ConstructResponse)
        /\ ResolvesToOtherVersion(ConstructResponse) =>
               versionText = Version \o "\n  <yellow>Latest available version: "
                   \o TrimSpace(ConstructResponse.body)
                   \o "</yellow>\n  Build date: unknown\n  Built with: go1.14\n"
        /\ ~ResolvesToOtherVersion(ConstructResponse) =>
               versionText =
                   Version \o "\n  Build date: unknown\n  Built with: go1.14\n"
        /\ phase = "Constructed" => (err = Nil /\ exitCode = NoExit)

C13_Witness ==
    /\ phase = "Constructed"
    /\ Version = "v1.0.0"
    /\ ResolvesToOtherVersion(ConstructResponse)
    /\ stringsContains(versionText, "Latest available version: v1.1.0")

\* the place of each part of an invocation in its lifecycle
PhaseRank(ph) ==
    CASE ph = "construct" -> 0
      [] ph = "pre" -> 1
      [] ph = "body" -> 2
      [] ph = "post" -> 3
      [] ph = "main" -> 4

\* C14: an invocation goes through its lifecycle in order and without
\* overlap: the events of construction, pre-hook, body and post-hook never
\* interleave; the pre-hook ensures the directory before it checks the gate;
\* the body runs only after a pre-hook that returned nil without exiting; the
\* post-hook runs only after the body has returned; and Blocked is final: the
\* exit is the last event, with no body and no post-hook.
C14_LifecycleOrder ==
    /\ \A i, j \in 1..Len(log) :
          i < j => PhaseRank(log[i].phase) <= PhaseRank(log[j].phase)
    /\ EventsOf("pre") # << >> => EventsOf("pre")[1].op = "Create"
    /\ BodyRan =>
          /\ Len(Calls("Run")) = 1
          /\ CreateSucceeded
          /\ Calls("Exit") = << >>
    /\ EventsOf("post") # << >> =>
          /\ BodyRan
          /\ phase \in {"PostChecksDone", "PostFailed"}
    /\ phase = "Blocked" =>
          /\ log[Len(log)].op = "Exit"
          /\ ~BodyRan
          /\ EventsOf("post") = << >>
          /\ EventsOf("main") = << >>
    /\ phase = "Proceed" => (PreDone /\ ~BodyRan /\ err = Nil)
    /\ phase \in {"BodyExecuted", "BodyFailed"} =>
          (BodyRan /\ EventsOf("post") = << >>)

C14_Witness ==
    /\ phase = "PostChecksDone"
    /\ Len(EventsOf("pre")) = 2
    /\ BodyRan
    /\ Len(EventsOf("post")) > 2

\* the process has ended
Ended == exitCode # NoExit

BodyFailed == BodyRan /\ Calls("Run")[1].res # Nil

\* the checks of the post-hook were made: the version notice of the root
\* command and the marker query of the tutorial check
PostChecksPerformed ==
    /\ Len(CallsIn("post", "Exists")) = 1
    /\ cmdPath = "rit" => (/\ Len(CallsIn("post", "Get")) = 1
                           /\ Len(CallsIn("post", "Warning")) = 1)

ExactWhitelistPaths ==
    { "rit", "rit help", "rit completion zsh", "rit completion bash",
      "rit completion fish", "rit completion powershell", "rit init",
      "rit upgrade" }

\* C16: the whitelist matches by equality only and the completion test by
\* substring: with the home ensured and the marker absent, the pre-hook
\* blocks exactly the paths that equal no whitelist entry and hold no
\* "__complete"; a path that only extends or shortens an entry ("rit init x",
\* "rit completion") is blocked, a path with "__complete" anywhere is not.
C16_ExactMatchAndSubstring ==
    (PreDone /\ CreateSucceeded /\ ~MarkerAtPre) =>
        /\ phase = "Blocked" <=>
              (/\ cmdPath \notin ExactWhitelistPaths
               /\ ~stringsContains(cmdPath, "__complete"))
        /\ cmdPath \in {"rit init x", "rit completion"} => phase = "Blocked"
        /\ cmdPath \in {"rit __complete", "rit __complete sub",
                        "rit sub__completeNoDesc"} =>
              (phase # "Blocked" /\ CallsIn("pre", "Exists") = << >>)

C16_Witness ==
    /\ phase = "Blocked"
    /\ cmdPath = "rit completion"
    /\ ~MarkerAtPre
    /\ InitMessagePrinted

\* what the initialization checks of the two hooks answered
PreAnswer == CallsIn("pre", "Exists")[1].res

PostAnswer == CallsIn("post", "Exists")[1].res

\* C17: the initialization check consults the existence of
\* {home}/repos/commons and nothing else, and changes nothing: each answer is
\* the presence of the marker at that time, the hook that asks leaves the
\* filesystem as it was (the pre-hook adds the home it created, no more), and
\* two checks with the marker unchanged in between give the same answer.
C17_CheckerIsPure ==
    /\ [](/\ \A i \in 1..Len(Calls("Exists")) :
                Calls("Exists")[i].arg = "/home/user/.rit/repos/commons"
          /\ CallsIn("pre", "Exists") # << >> =>
                /\ PreAnswer = BoolStr(MarkerAtPre)
                /\ phase \in {"Blocked", "Proceed"} =>
                       fs = fs0 \cup {ritchieHome}
          /\ PostDone => PostAnswer = BoolStr(MarkerNow)
          /\ (PostDone /\ CallsIn("pre", "Exists") # << >>
                 /\ MarkerAtPre = MarkerNow) => PreAnswer = PostAnswer)
    /\ [][ /\ phase = "BodyExecuted" =>
                (fs' = fs /\ cmdPath' = cmdPath /\ Version' = Version)
           /\ phase = "Constructed" =>
                (fs' \in {fs, fs \cup {ritchieHome}} /\ cmdPath' = cmdPath) ]_vars

C17_Witness ==
    /\ PostDone
    /\ CallsIn("pre", "Exists") # << >>
    /\ MarkerAtPre
    /\ MarkerNow
    /\ PreAnswer = "true"
    /\ PostAnswer = "true"

\* C18: the tutorial check follows the marker state at post-hook time, not
\* the one the pre-hook saw: when the invocation began without the marker (so
\* the command was exempt) and the body created it, the post-hook makes no
\* Find call and prints no banner; when the marker was there and the body
\* removed it, the post-hook does call Find.
C18_PostHookSeesBodyEffect ==
    /\ (PostDone /\ ~MarkerAtPre /\ MarkerNow) =>
          /\ InitWhitelisted \/ CompletionInvocation
          /\ CallsIn("pre", "Exists") = << >>
          /\ CallsIn("post", "Exists")[1].res = "true"
          /\ Calls("Find") = << >>
          /\ ~TutorialTagPrinted
          /\ err = Nil
    /\ (PostDone /\ MarkerAtPre /\ ~MarkerNow) =>
          /\ CallsIn("post", "Exists")[1].res = "false"
          /\ Len(Calls("Find")) = 1

C18_Witness ==
    /\ PostDone
    /\ cmdPath = "rit init"
    /\ fs0 = {}
    /\ MarkerNow
    /\ Calls("Find") = << >>

\* C19: whenever the post-hook has called Find, the command path was exempt
\* from the initialization gate, or the marker was present when the pre-hook
\* checked it and gone when the post-hook did; a command that is not exempt,
\* on a home without the marker, never gets to the tutorial check.
C19_WhoReachesTutorialCheck ==
    /\ Calls("Find") # << >> =>
          \/ InitWhitelisted
          \/ CompletionInvocation
          \/ (/\ MarkerAtPre
              /\ CallsIn("pre", "Exists") # << >>
              /\ CallsIn("pre", "Exists")[1].res = "true"
              /\ ~MarkerNow)
    /\ (~InitWhitelisted /\ ~CompletionInvocation /\ ~MarkerAtPre) =>
          /\ EventsOf("post") = << >>
          /\ Calls("Find") = << >>
          /\ ~TutorialTagPrinted

C19_Witness ==
    /\ Len(Calls("Find")) = 1
    /\ cmdPath = "rit sub"
    /\ MarkerAtPre
    /\ ~MarkerNow

====
